---- MODULE Spec2Model ----
(***************************************************************************)
(* A model of fakesnow/fakes.py: FakeSnowflakeCursor,                      *)
(* FakeSnowflakeConnection, DuckResultBatch and write_pandas, on top of a  *)
(* DuckDB connection handle that every cursor of a connection shares.      *)
(*                                                                         *)
(* A result set is n rows of query q; row i of it is the pair <<q, i>>.    *)
(* A run of consecutive rows (an arrow table, a record batch, a fetched    *)
(* list) is [q, lo, hi]: rows lo .. hi-1 of query q.  Query 0 is a         *)
(* DESCRIBE, the queries of QueryIds are SELECTs, and the N-th query after  *)
(* them is the INSERT of an N-row dataframe, whose one row holds N.        *)
(***************************************************************************)
EXTENDS Integers, Sequences, FiniteSets, TLC

\* ------------------------------------------------------------------ bounds
MaxRows == 2
MaxFetch == 3
MaxStmts == 2
MaxCols == 2

\* chunk_size of fetch_record_batch
ChunkSize == 1024

\* ------------------------------------------------------------------ values
None == <<>>
Some(x) == <<x>>

NoExc == [type |-> "none", msg |-> ""]
Messages == {"m1", "m2"}
\* duckdb.CatalogException and two other errors duckdb raises from execute
EngineErrorTypes == {"CatalogException", "ParserException", "ConstraintException"}
EngineErrors == {[type |-> t, msg |-> m] : t \in EngineErrorTypes, m \in Messages}
\* sqlglot's error, raised by parse_one before the engine is reached
ParseErrors == {[type |-> "ParseError", msg |-> "m1"]}
\* duckdb's error for a fetch with no open result
NoResultError == [type |-> "InvalidInputException", msg |-> "no open result set"]
\* Python's error for reading self._arrow_table before any execute set it
AttributeError == [type |-> "AttributeError", msg |-> "_arrow_table"]

\* the SELECTs a run may issue: an earlier and a later one
QueryIds == {1, 2}
\* result sizes: a few rows, and sizes around one and two chunks
SmallCounts == 0 .. MaxRows
ChunkCounts == {ChunkSize, ChunkSize + 1, 2 * ChunkSize + 1}

\* What one statement does once parsed, transformed and sent to the engine:
\* it returns n rows of query q, or raises exc.
OkCommand(q, n) == [out |-> "ok", q |-> q, n |-> n, exc |-> NoExc]
FailCommand(e) == [out |-> "raise", q |-> 0, n |-> 0, exc |-> e]

\* ------------------------------------------------------------ row runs
EmptyRun == [q |-> 0, lo |-> 0, hi |-> 0]
RunLen(t) == t.hi - t.lo
RowAt(t, i) == <<t.q, t.lo + i>>
\* two runs hold the same rows in the same order
SameRows(a, b) == (RunLen(a) = 0 /\ RunLen(b) = 0) \/ a = b

\* ------------------------------------------------------------- the engine
\* DuckDBPyConnection: the open result set and how many rows were consumed
Engine0 == [open |-> FALSE, q |-> 0, n |-> 0, pos |-> 0]

\* duck_conn.execute(sql) succeeding with a result of n rows
DuckOpen(q, n) == [open |-> TRUE, q |-> q, n |-> n, pos |-> 0]

\* the rows the engine has not handed out yet
Remaining(eng) == [q |-> eng.q, lo |-> eng.pos, hi |-> eng.n]

\* the engine after handing out every remaining row
Drained(eng) == [eng EXCEPT !.pos = eng.n]

\* duck_conn.fetchone(): the next row, or None
DuckFetchoneRow(eng) == IF eng.pos < eng.n THEN Some(<<eng.q, eng.pos>>) ELSE None
DuckFetchoneNext(eng) == IF eng.pos < eng.n THEN [eng EXCEPT !.pos = eng.pos + 1] ELSE eng

\* the states duck_conn.execute may leave behind when it raises exc: the
\* previous result still open, or no result open (it is not reached at
\* all when the statement does not parse)
AfterFailedExecute(eng, exc) ==
  IF exc.type \in EngineErrorTypes THEN {eng, Engine0} ELSE {eng}

\* ---------------------------------------------------------------- cursor
\* the cursors a run may create: A and B
CursorIds == {1, 2}
\* FakeSnowflakeCursor.__init__: _arrow_table and the fetch index do not
\* exist until execute / fetchone assign them
NoTable == [st |-> "unset", q |-> 0, lo |-> 0, hi |-> 0]
NoneTable == [st |-> "none", q |-> 0, lo |-> 0, hi |-> 0]
AsTable(run) == [st |-> "table", q |-> run.q, lo |-> run.lo, hi |-> run.hi]
NewCursor(h, useDict) == [conn |-> h, dict |-> useDict, table |-> NoTable, idx |-> -1]

\* Python truth value of self._arrow_table: None is false, and a
\* pyarrow.Table is false when it has no rows (Table.__len__)
Truthy(table) == table.st = "table" /\ RunLen(table) > 0

\* What an operation leaves behind: the engine, the cursor, and what the
\* call gave back (kind "raise": val is the exception)
Out(eng, cur, kind, val) == [eng |-> eng, cur |-> cur, kind |-> kind, val |-> val]

\* execute, lines 125-126: only duckdb.CatalogException is caught, and
\* re-raised as ProgrammingError(e.args[0])
TranslateAll(exc) == [type |-> "ProgrammingError", msg |-> exc.msg]
TranslateError(exc) ==
  IF exc.type = "CatalogException"
  THEN [type |-> "ProgrammingError", msg |-> exc.msg]
  ELSE exc

\* execute, line 128: self._arrow_table = None, reached only when
\* duck_conn.execute returned
ViewClearedAlways(cur, ok) == [cur EXCEPT !.table = NoneTable]
ViewAfterExecute(cur, ok) == IF ok THEN [cur EXCEPT !.table = NoneTable] ELSE cur

\* FakeSnowflakeCursor.execute; failEng is the state the engine is left in
\* if duck_conn.execute raises
execute(eng, cur, cmd, failEng) ==
  IF cmd.out = "ok"
  THEN Out(DuckOpen(cmd.q, cmd.n), ViewAfterExecute(cur, TRUE), "self", None)
  ELSE Out(failEng,
           ViewAfterExecute(cur, FALSE), "raise", TranslateError(cmd.exc))

\* fetchone, lines 141-143: a false _arrow_table is fetched from the engine
\* and the index restarts at -1; line 145 then increments it
NextIndexNoReset(cur, refetch) == cur.idx + 1
NextIndex(cur, refetch) == (IF refetch THEN -1 ELSE cur.idx) + 1

\* fetchone, lines 147-150: take([i]).to_pylist(), None on ArrowIndexError
TakeRowOffByOne(table, i) == IF i + 1 < RunLen(table) THEN Some(RowAt(table, i + 1)) ELSE None
TakeRow(table, i) == IF i < RunLen(table) THEN Some(RowAt(table, i)) ELSE None

\* FakeSnowflakeCursor.fetchone
fetchone(eng, cur) ==
  IF ~cur.dict
  THEN IF ~eng.open THEN Out(eng, cur, "raise", NoResultError)
       ELSE IF DuckFetchoneRow(eng) = None THEN Out(eng, cur, "none", None)
       ELSE Out(DuckFetchoneNext(eng), cur, "tuple", DuckFetchoneRow(eng)[1])
  ELSE IF cur.table.st = "unset" THEN Out(eng, cur, "raise", AttributeError)
  ELSE LET refetch == ~Truthy(cur.table) IN
       IF refetch /\ ~eng.open THEN Out(eng, cur, "raise", NoResultError)
       ELSE LET table == IF refetch THEN AsTable(Remaining(eng)) ELSE cur.table
                i == NextIndex(cur, refetch)
                got == TakeRow(table, i)
            IN Out(IF refetch THEN Drained(eng) ELSE eng,
                   [cur EXCEPT !.table = table, !.idx = i],
                   IF got = None THEN "none" ELSE "dictlist",
                   IF got = None THEN None ELSE got[1])

\* FakeSnowflakeCursor.fetchall: the engine's remaining rows, as dicts or
\* as tuples; _arrow_table is not consulted
fetchall(eng, cur) ==
  IF ~eng.open THEN Out(eng, cur, "raise", NoResultError)
  ELSE Out(Drained(eng), cur, IF cur.dict THEN "dicts" ELSE "tuples", Remaining(eng))

\* DuckResultBatch.__init__ and rowcount
DuckResultBatch(useDict, batch) == [dict |-> useDict, batch |-> batch]
rowcount(b) == RunLen(b.batch)

\* reader.read_next_batch(): at most ChunkSize rows; StopIteration when
\* the reader is exhausted
ReaderExhausted(reader) == RunLen(reader) = 0
ReaderBatch(reader) ==
  [reader EXCEPT !.hi = IF RunLen(reader) > ChunkSize THEN reader.lo + ChunkSize ELSE reader.hi]
ReaderRest(reader) == [reader EXCEPT !.lo = ReaderBatch(reader).hi]

\* get_result_batches, lines 157-164: append until StopIteration
RECURSIVE ReadBatchesStopShort(_, _)
ReadBatchesStopShort(useDict, reader) ==
  IF ReaderExhausted(reader) \/ RunLen(ReaderBatch(reader)) < ChunkSize THEN <<>>
  ELSE <<DuckResultBatch(useDict, ReaderBatch(reader))>>
       \o ReadBatchesStopShort(useDict, ReaderRest(reader))
RECURSIVE ReadBatches(_, _)
ReadBatches(useDict, reader) ==
  IF ReaderExhausted(reader) THEN <<>>
  ELSE <<DuckResultBatch(useDict, ReaderBatch(reader))>>
       \o ReadBatches(useDict, ReaderRest(reader))

\* FakeSnowflakeCursor.get_result_batches
get_result_batches(eng, cur) ==
  IF ~eng.open THEN Out(eng, cur, "raise", NoResultError)
  ELSE Out(Drained(eng), cur, "batches", ReadBatches(cur.dict, Remaining(eng)))

\* ------------------------------------------------------------- describe
\* Column type names as DESCRIBE prints them, one character per element
INTEGER == <<"I","N","T","E","G","E","R">>
DECIMAL == <<"D","E","C","I","M","A","L">>
VARCHAR == <<"V","A","R","C","H","A","R">>
FLOAT == <<"F","L","O","A","T">>
TIMESTAMP == <<"T","I","M","E","S","T","A","M","P">>
TypeNames ==
  { INTEGER, VARCHAR, FLOAT, TIMESTAMP, DECIMAL,
    DECIMAL \o <<"(","1","0",",","2",")">>,
    DECIMAL \o <<"(","1","8",",","3",")">>,
    DECIMAL \o <<"(",",","2",")">>,
    DECIMAL \o <<"(","5",")">>,
    <<"D","O","U","B","L","E">>,
    INTEGER \o <<"[","]">> }
ColumnNames == <<"c1", "c2", "c3", "c4">>
\* the rows DESCRIBE returns for a query with these column types
DescribeRows(types) == [i \in 1 .. Len(types) |-> <<ColumnNames[i], types[i], "YES">>]

Digits == [c \in {"0","1","2","3","4","5","6","7","8","9"} |->
             CASE c = "0" -> 0 [] c = "1" -> 1 [] c = "2" -> 2 [] c = "3" -> 3
               [] c = "4" -> 4 [] c = "5" -> 5 [] c = "6" -> 6 [] c = "7" -> 7
               [] c = "8" -> 8 [] c = "9" -> 9]
IsDigit(c) == c \in DOMAIN Digits

\* str.startswith
StartsWith(s, prefix) == Len(s) >= Len(prefix) /\ SubSeq(s, 1, Len(prefix)) = prefix

\* the end of the greedy \d+ that starts at i: the first index not a digit
RECURSIVE DigitsEnd(_, _)
DigitsEnd(s, i) == IF i <= Len(s) /\ IsDigit(s[i]) THEN DigitsEnd(s, i + 1) ELSE i

\* int() of the digits s[a .. b-1]
RECURSIVE ParseInt(_, _, _)
ParseInt(s, a, b) == IF a >= b THEN 0 ELSE ParseInt(s, a, b - 1) * 10 + Digits[s[b - 1]]

\* whether \((\d+),(\d+)\) matches s at index i
MatchAt(s, i) ==
  /\ s[i] = "("
  /\ LET j == DigitsEnd(s, i + 1) IN
       /\ j > i + 1 /\ j <= Len(s) /\ s[j] = ","
       /\ LET k == DigitsEnd(s, j + 1) IN k > j + 1 /\ k <= Len(s) /\ s[k] = ")"

\* re.search(r'\((\d+),(\d+)\)', s): the groups of the leftmost match as
\* <<match[1], match[2]>>, or None
ReSearch(s) ==
  LET hits == {i \in 1 .. Len(s) : MatchAt(s, i)} IN
  IF hits = {} THEN None
  ELSE LET i == CHOOSE x \in hits : \A y \in hits : x <= y
           j == DigitsEnd(s, i + 1)
           k == DigitsEnd(s, j + 1)
       IN Some(<<ParseInt(s, i + 1, j), ParseInt(s, j + 1, k)>>)

ResultMetadata(name, type_code, display_size, internal_size, precision, scale, is_nullable) ==
  [name |-> name, type_code |-> type_code, display_size |-> display_size,
   internal_size |-> internal_size, precision |-> precision, scale |-> scale,
   is_nullable |-> is_nullable]

\* as_result_metadata, lines 92-94: any other type name raises
\* NotImplementedError (None here); no record is made up for it
DefaultType(column_name, column_type) ==
  Some(ResultMetadata(column_name, 2, None, None, None, None, TRUE))
UnsupportedType(column_name, column_type) == None

\* describe.as_result_metadata, lines 62-94: Some(record), or None for the
\* NotImplementedError
as_result_metadata(column_name, column_type) ==
  IF column_type = INTEGER
  THEN Some(ResultMetadata(column_name, 0, None, None, Some(38), Some(0), TRUE))
  ELSE IF StartsWith(column_type, DECIMAL)
  THEN LET match == ReSearch(column_type) IN
       IF match # None
       THEN Some(ResultMetadata(column_name, 0, None, None,
                                Some(match[1][1]), Some(match[1][2]), TRUE))
       ELSE Some(ResultMetadata(column_name, 0, None, None, None, None, TRUE))
  ELSE IF column_type = VARCHAR
  THEN Some(ResultMetadata(column_name, 2, None, Some(16777216), None, None, TRUE))
  ELSE IF column_type = FLOAT
  THEN Some(ResultMetadata(column_name, 1, None, None, None, None, TRUE))
  ELSE IF column_type = TIMESTAMP
  THEN Some(ResultMetadata(column_name, 8, None, None, Some(0), Some(9), TRUE))
  ELSE UnsupportedType(column_name, column_type)

NotImplementedError == [type |-> "NotImplementedError", msg |-> "for column type"]

\* FakeSnowflakeCursor.describe: execute the DESCRIBE form, fetch all its
\* rows from the engine, map each row; exc is what the engine raises for
\* the DESCRIBE (NoExc: it returns one row per column of types)
describe(eng, cur, types, exc, failEng) ==
  LET cmd == IF exc = NoExc
             THEN [out |-> "ok", q |-> 0, n |-> Len(types), exc |-> NoExc]
             ELSE [out |-> "raise", q |-> 0, n |-> 0, exc |-> exc]
      ex == execute(eng, cur, cmd, failEng)
  IN IF ex.kind = "raise" THEN ex
     ELSE LET rows == DescribeRows(types)
              meta == [i \in 1 .. Len(rows) |-> as_result_metadata(rows[i][1], rows[i][2])]
          IN IF \E i \in 1 .. Len(rows) : meta[i] = None
             THEN Out(Drained(ex.eng), ex.cur, "raise", NotImplementedError)
             ELSE Out(Drained(ex.eng), ex.cur, "meta", [i \in 1 .. Len(rows) |-> meta[i][1]])

\* ----------------------------------------------------------- connection
\* the query id of the INSERT of an N-row dataframe, and the count its one
\* result row holds in its first column
InsertQuery(count) == Cardinality(QueryIds) + 1 + count
FirstColumn(row) == row[1] - Cardinality(QueryIds) - 1

\* FakeSnowflakeConnection.insert_df: duck_conn.execute of the INSERT
\* (exc: what the engine raises for it), then fetchall()[0][0]
insert_df_len(eng, nrows, exc, failEng) ==
  IF exc # NoExc THEN Out(failEng, NoTable, "raise", exc)
  ELSE LET opened == DuckOpen(InsertQuery(nrows), 1)
           rows == Remaining(opened)
       IN Out(Drained(opened), NoTable, "count", RunLen(rows))
insert_df(eng, nrows, exc, failEng) ==
  IF exc # NoExc THEN Out(failEng, NoTable, "raise", exc)
  ELSE LET opened == DuckOpen(InsertQuery(nrows), 1)
           rows == Remaining(opened)
       IN Out(Drained(opened), NoTable, "count", FirstColumn(RowAt(rows, 0)))

\* write_pandas, lines 274-280
write_pandas(eng, nrows, exc, failEng) ==
  LET ins == insert_df(eng, nrows, exc, failEng) IN
  IF ins.kind = "raise" THEN ins
  ELSE LET count == ins.val
           mock_copy_results ==
             << <<"fakesnow/file0.txt", "LOADED", count, count, 1, 0, None, None, None, None>> >>
       IN Out(ins.eng, NoTable, "report",
              <<TRUE, Len(mock_copy_results), count, mock_copy_results>>)

\* sqlglot.parse gives None for an empty statement; `if e` drops it
EmptyStatement == [out |-> "empty", q |-> 0, n |-> 0, exc |-> NoExc]

\* execute_string, line 205: one new cursor per statement, executed in
\* list order; stops at the first statement that raises.  log is what
\* reached duck_conn.execute, in order.
RECURSIVE ExecuteEachBackwards(_, _, _, _, _)
ExecuteEachBackwards(eng, h, useDict, stmts, failEng) ==
  IF stmts = <<>> THEN [eng |-> eng, curs |-> <<>>, log |-> <<>>, exc |-> NoExc]
  ELSE LET n == Len(stmts)
           last == stmts[n]
           front == SubSeq(stmts, 1, n - 1)
       IN IF last = EmptyStatement THEN ExecuteEachBackwards(eng, h, useDict, front, failEng)
          ELSE LET r == execute(eng, NewCursor(h, useDict), last, failEng) IN
               IF r.kind = "raise"
               THEN [eng |-> r.eng, curs |-> <<>>, log |-> <<last>>, exc |-> r.val]
               ELSE LET rest == ExecuteEachBackwards(r.eng, h, useDict, front, failEng) IN
                    [rest EXCEPT !.curs = rest.curs \o <<r.cur>>, !.log = <<last>> \o rest.log]
RECURSIVE ExecuteEach(_, _, _, _, _)
ExecuteEach(eng, h, useDict, stmts, failEng) ==
  IF stmts = <<>> THEN [eng |-> eng, curs |-> <<>>, log |-> <<>>, exc |-> NoExc]
  ELSE IF Head(stmts) = EmptyStatement THEN ExecuteEach(eng, h, useDict, Tail(stmts), failEng)
  ELSE LET r == execute(eng, NewCursor(h, useDict), Head(stmts), failEng) IN
       IF r.kind = "raise"
       THEN [eng |-> r.eng, curs |-> <<>>, log |-> <<Head(stmts)>>, exc |-> r.val]
       ELSE LET rest == ExecuteEach(r.eng, h, useDict, Tail(stmts), failEng) IN
            [rest EXCEPT !.curs = <<r.cur>> \o rest.curs, !.log = <<Head(stmts)>> \o rest.log]

\* execute_string, line 206: cursors if return_cursors else []; nothing
\* is returned when a statement raised
execute_string(all, return_cursors) ==
  IF all.exc # NoExc \/ ~return_cursors THEN <<>> ELSE all.curs

\* ---------------------------------------------------------------- state
\* engine[h]: the DuckDB connection behind connection h
\* cursors[c]: the cursors handed out so far, in creation order
\* hist[c]: while nothing but cursor c's own fetchone calls has used its
\*          engine since c's last successful execute: that result (q, n)
\*          and the number k of those calls; NoHist otherwise
\* ret: the last call and what it gave back, with the argument of a
\*      describe, insert_df, write_pandas or execute_string
VARIABLES engine, cursors, hist, ret
vars == <<engine, cursors, hist, ret>>

NoHist == [clean |-> FALSE, q |-> 0, n |-> 0, k |-> 0]
Ret(op, c, arg, out) == [op |-> op, cur |-> c, arg |-> arg, kind |-> out.kind, val |-> out.val]

SeqsUpTo(S, n) == UNION {[1 .. k -> S] : k \in 0 .. n}

\* one FakeSnowflakeConnection, constructed without a schema
Init ==
  /\ engine = <<Engine0>>
  /\ cursors = <<>>
  /\ hist = <<>>
  /\ ret = [op |-> "init", cur |-> 0, arg |-> None, kind |-> "none", val |-> None]

\* hist after a call on engine h: cursor c's entry becomes mine, and every
\* other cursor of the same engine is no longer alone on it
Touched(h, c, mine) ==
  [i \in DOMAIN hist |->
     IF i = c THEN mine ELSE IF cursors[i].conn = h THEN NoHist ELSE hist[i]]

\* FakeSnowflakeConnection.cursor
Cursor(h, useDict) ==
  /\ Len(cursors) < Cardinality(CursorIds)
  /\ cursors' = Append(cursors, NewCursor(h, useDict))
  /\ hist' = Append(hist, NoHist)
  /\ ret' = [op |-> "cursor", cur |-> Len(cursors) + 1, arg |-> None,
             kind |-> "cursor", val |-> Len(cursors) + 1]
  /\ UNCHANGED engine

Execute(c, cmd, failEng) ==
  LET h == cursors[c].conn
      out == execute(engine[h], cursors[c], cmd, failEng)
  IN /\ engine' = [engine EXCEPT ![h] = out.eng]
     /\ cursors' = [cursors EXCEPT ![c] = out.cur]
     /\ hist' = Touched(h, c, IF out.kind = "raise" THEN NoHist
                              ELSE [clean |-> TRUE, q |-> cmd.q, n |-> cmd.n, k |-> 0])
     /\ ret' = Ret("execute", c, None, out)

\* The guard stops each cursor after MaxFetch rows or calls.
Fetchone(c) ==
  LET h == cursors[c].conn
      out == fetchone(engine[h], cursors[c])
  IN /\ hist[c].k < MaxFetch
     /\ cursors[c].idx < MaxFetch
     /\ engine[h].pos < MaxFetch \/ engine[h].pos >= engine[h].n
     /\ engine' = [engine EXCEPT ![h] = out.eng]
     /\ cursors' = [cursors EXCEPT ![c] = out.cur]
     /\ hist' = Touched(h, c, IF hist[c].clean THEN [hist[c] EXCEPT !.k = hist[c].k + 1]
                              ELSE NoHist)
     /\ ret' = Ret("fetchone", c, None, out)

Fetchall(c) ==
  LET h == cursors[c].conn
      out == fetchall(engine[h], cursors[c])
  IN /\ engine' = [engine EXCEPT ![h] = out.eng]
     /\ cursors' = [cursors EXCEPT ![c] = out.cur]
     /\ hist' = Touched(h, c, NoHist)
     /\ ret' = Ret("fetchall", c, None, out)

GetResultBatches(c) ==
  LET h == cursors[c].conn
      out == get_result_batches(engine[h], cursors[c])
  IN /\ engine' = [engine EXCEPT ![h] = out.eng]
     /\ cursors' = [cursors EXCEPT ![c] = out.cur]
     /\ hist' = Touched(h, c, NoHist)
     /\ ret' = Ret("get_result_batches", c, None, out)

Describe(c, types, exc, failEng) ==
  LET h == cursors[c].conn
      out == describe(engine[h], cursors[c], types, exc, failEng)
  IN /\ engine' = [engine EXCEPT ![h] = out.eng]
     /\ cursors' = [cursors EXCEPT ![c] = out.cur]
     /\ hist' = Touched(h, c, NoHist)
     /\ ret' = Ret("describe", c, [types |-> types, exc |-> exc], out)

InsertDf(h, nrows, exc, failEng) ==
  LET out == insert_df(engine[h], nrows, exc, failEng)
  IN /\ engine' = [engine EXCEPT ![h] = out.eng]
     /\ hist' = Touched(h, 0, NoHist)
     /\ ret' = Ret("insert_df", 0, [nrows |-> nrows, exc |-> exc], out)
     /\ UNCHANGED cursors

WritePandas(h, nrows, exc, failEng) ==
  LET out == write_pandas(engine[h], nrows, exc, failEng)
  IN /\ engine' = [engine EXCEPT ![h] = out.eng]
     /\ hist' = Touched(h, 0, NoHist)
     /\ ret' = Ret("write_pandas", 0, [nrows |-> nrows, exc |-> exc], out)
     /\ UNCHANGED cursors

\* FakeSnowflakeConnection.execute_string: the cursors of line 205 stay
\* reachable only if they are returned
ExecuteString(h, stmts, return_cursors, useDict, failEng) ==
  LET all == ExecuteEach(engine[h], h, useDict, stmts, failEng)
      raised == all.exc # NoExc
      kept == execute_string(all, return_cursors)
      base == Len(cursors)
      arg == [stmts |-> stmts, return_cursors |-> return_cursors, useDict |-> useDict,
              base |-> base, log |-> all.log]
  IN /\ Len(cursors) + Len(kept) <= MaxStmts + 1
     /\ engine' = [engine EXCEPT ![h] = all.eng]
     /\ cursors' = cursors \o kept
     /\ hist' = [i \in 1 .. base + Len(kept) |->
                   IF i <= base
                   THEN IF cursors[i].conn = h /\ all.log # <<>> THEN NoHist ELSE hist[i]
                   ELSE IF i - base = Len(kept)
                        THEN [clean |-> TRUE, q |-> all.log[i - base].q,
                              n |-> all.log[i - base].n, k |-> 0]
                        ELSE NoHist]
     /\ ret' = IF raised
               THEN [op |-> "execute_string", cur |-> 0, arg |-> arg, kind |-> "raise", val |-> all.exc]
               ELSE [op |-> "execute_string", cur |-> 0, arg |-> arg, kind |-> "cursors",
                     val |-> [i \in 1 .. Len(kept) |-> base + i]]

\* ------------------------------------------------ the inputs, per action
Modes == {TRUE, FALSE}
CatalogError == [type |-> "CatalogException", msg |-> "m1"]
OtherError == [type |-> "ConstraintException", msg |-> "m2"]

ExecuteFrom(cmds) ==
  \E c \in DOMAIN cursors, cmd \in cmds :
    \E failEng \in AfterFailedExecute(engine[cursors[c].conn], cmd.exc) : Execute(c, cmd, failEng)
DescribeFrom(typeLists, excs) ==
  \E c \in DOMAIN cursors, types \in typeLists, exc \in excs :
    \E failEng \in AfterFailedExecute(engine[cursors[c].conn], exc) : Describe(c, types, exc, failEng)
InsertDfFrom(counts, excs) ==
  \E h \in DOMAIN engine, nrows \in counts, exc \in excs :
    \E failEng \in AfterFailedExecute(engine[h], exc) : InsertDf(h, nrows, exc, failEng)

\* ------------------------------------------------------ the whole program
\* Every operation, on results of a few rows.
Commands ==
  {OkCommand(q, n) : q \in QueryIds, n \in SmallCounts}
    \cup {FailCommand(e) : e \in {CatalogError, OtherError}}

Next ==
  \/ \E h \in DOMAIN engine, useDict \in Modes : Cursor(h, useDict)
  \/ ExecuteFrom(Commands)
  \/ \E c \in DOMAIN cursors : Fetchone(c)
  \/ \E c \in DOMAIN cursors : Fetchall(c)
  \/ \E c \in DOMAIN cursors : GetResultBatches(c)
  \/ DescribeFrom({<<INTEGER, VARCHAR>>}, {NoExc})
  \/ InsertDfFrom({MaxRows}, {NoExc})

Spec == Init /\ [][Next]_vars

\* ------------------------------------------------------------- one call
\* A call about to be made, with its argument
Pending(op, arg) == [op |-> op, cur |-> 0, arg |-> arg, kind |-> "pending", val |-> None]
IsPending(op) == ret.kind = "pending" /\ ret.op = op

\* the engine and the cursors a call may find: nothing done yet, or one
\* cursor that has executed a one-row SELECT
Before(useDict) ==
  { [engine |-> <<Engine0>>, cursors |-> <<>>, hist |-> <<>>],
    [engine |-> <<DuckOpen(1, 1)>>,
     cursors |-> <<ViewAfterExecute(NewCursor(1, useDict), TRUE)>>,
     hist |-> <<[clean |-> TRUE, q |-> 1, n |-> 1, k |-> 0]>>] }

\* ------------------------------------------------------------- describe
\* describe on a cursor of either mode, over every list of up to MaxCols
\* column types, and over a DESCRIBE the engine rejects.
DescribeCalls ==
  {Pending("describe", [types |-> t, exc |-> NoExc]) : t \in SeqsUpTo(TypeNames, MaxCols)}
    \cup {Pending("describe", [types |-> <<INTEGER>>, exc |-> e]) : e \in {CatalogError, OtherError}}

InitDescribe ==
  /\ \E useDict \in Modes :
       /\ engine = <<Engine0>>
       /\ cursors = <<NewCursor(1, useDict)>>
       /\ hist = <<NoHist>>
  /\ ret \in DescribeCalls

CallDescribe ==
  /\ IsPending("describe")
  /\ \E c \in DOMAIN cursors :
       \E failEng \in AfterFailedExecute(engine[cursors[c].conn], ret.arg.exc) :
         Describe(c, ret.arg.types, ret.arg.exc, failEng)

NextDescribe == CallDescribe

SpecDescribe == InitDescribe /\ [][NextDescribe]_vars

\* ------------------------------------------------- connection operations
\* execute_string over every text of up to MaxStmts statements, insert_df
\* and write_pandas over dataframes of up to MaxRows rows.
Statements ==
  {OkCommand(q, n) : q \in QueryIds, n \in {0, 1}}
    \cup {FailCommand(CatalogError), EmptyStatement}

ConnCalls ==
  {Pending("execute_string", [stmts |-> t, return_cursors |-> rc, useDict |-> d]) :
     t \in SeqsUpTo(Statements, MaxStmts), rc \in BOOLEAN, d \in Modes}
    \cup {Pending(op, [nrows |-> n, exc |-> e]) :
            op \in {"insert_df", "write_pandas"}, n \in 0 .. MaxRows, e \in {NoExc, CatalogError}}

InitConn ==
  /\ \E b \in UNION {Before(useDict) : useDict \in Modes} :
       /\ engine = b.engine
       /\ cursors = b.cursors
       /\ hist = b.hist
  /\ ret \in ConnCalls

CallExecuteString ==
  /\ IsPending("execute_string")
  /\ \E h \in DOMAIN engine :
       \E failEng \in AfterFailedExecute(engine[h], CatalogError) :
         ExecuteString(h, ret.arg.stmts, ret.arg.return_cursors, ret.arg.useDict, failEng)

CallInsertDf ==
  /\ IsPending("insert_df")
  /\ \E h \in DOMAIN engine :
       \E failEng \in AfterFailedExecute(engine[h], ret.arg.exc) :
         InsertDf(h, ret.arg.nrows, ret.arg.exc, failEng)

CallWritePandas ==
  /\ IsPending("write_pandas")
  /\ \E h \in DOMAIN engine :
       \E failEng \in AfterFailedExecute(engine[h], ret.arg.exc) :
         WritePandas(h, ret.arg.nrows, ret.arg.exc, failEng)

NextConn == CallExecuteString \/ CallInsertDf \/ CallWritePandas

SpecConn == InitConn /\ [][NextConn]_vars

\* ------------------------------------------------------- result batches
\* Results of a few rows and of about one and two chunks.
BatchCommands == {OkCommand(1, n) : n \in {0, MaxRows} \cup ChunkCounts}

NextBatches ==
  \/ \E h \in DOMAIN engine, useDict \in Modes : Cursor(h, useDict)
  \/ ExecuteFrom(BatchCommands)
  \/ \E c \in DOMAIN cursors : Fetchone(c)
  \/ \E c \in DOMAIN cursors : GetResultBatches(c)

SpecBatches == Init /\ [][NextBatches]_vars

\* ------------------------------------------------------ the two modes
\* Two connections, each with its own engine: a dict cursor on the first
\* and a tuple cursor on the second, given the same calls.

InitPair ==
  /\ engine = <<Engine0, Engine0>>
  /\ cursors = <<NewCursor(1, TRUE), NewCursor(2, FALSE)>>
  /\ hist = <<NoHist, NoHist>>
  /\ ret = [op |-> "init", cur |-> 0, arg |-> None, kind |-> "none", val |-> None]

PairRet(op, a, b) ==
  [op |-> op, cur |-> 0, arg |-> None, kind |-> "pair",
   val |-> <<[kind |-> a.kind, val |-> a.val], [kind |-> b.kind, val |-> b.val]>>]

PairExecute(cmd) ==
  LET a == execute(engine[1], cursors[1], cmd, engine[1])
      b == execute(engine[2], cursors[2], cmd, engine[2])
      h == [clean |-> TRUE, q |-> cmd.q, n |-> cmd.n, k |-> 0]
  IN /\ engine' = <<a.eng, b.eng>>
     /\ cursors' = <<a.cur, b.cur>>
     /\ hist' = <<h, h>>
     /\ ret' = PairRet("execute", a, b)

PairFetchone ==
  LET a == fetchone(engine[1], cursors[1])
      b == fetchone(engine[2], cursors[2])
  IN /\ hist[1].clean /\ hist[1].k < MaxFetch
     /\ engine' = <<a.eng, b.eng>>
     /\ cursors' = <<a.cur, b.cur>>
     /\ hist' = [i \in {1, 2} |-> [hist[i] EXCEPT !.k = hist[i].k + 1]]
     /\ ret' = PairRet("fetchone", a, b)

PairFetchall ==
  LET a == fetchall(engine[1], cursors[1])
      b == fetchall(engine[2], cursors[2])
  IN /\ hist[1].clean
     /\ engine' = <<a.eng, b.eng>>
     /\ cursors' = <<a.cur, b.cur>>
     /\ hist' = hist
     /\ ret' = PairRet("fetchall", a, b)

NextPair ==
  \/ \E q \in QueryIds, n \in SmallCounts : PairExecute(OkCommand(q, n))
  \/ PairFetchone
  \/ PairFetchall

SpecPair == InitPair /\ [][NextPair]_vars

\* ================================================================ claims

\* C1: on a cursor that alone has used its engine since its successful
\* execute of an R-row result, the k-th fetchone returns row k-1 (a
\* one-element list of dicts on a dict cursor, the tuple on a tuple cursor)
\* for k <= R, returns None for k > R, and never raises.
C1_FetchoneSequence ==
  \A c \in DOMAIN cursors :
    (ret.op = "fetchone" /\ ret.cur = c /\ hist[c].clean) =>
      /\ ret.kind # "raise"
      /\ hist[c].k <= hist[c].n =>
           /\ ret.kind = IF cursors[c].dict THEN "dictlist" ELSE "tuple"
           /\ ret.val = <<hist[c].q, hist[c].k - 1>>
      /\ hist[c].k > hist[c].n => ret.kind = "none"

\* a dict cursor has returned every row of a MaxRows-row result and now None
C1_Witness ==
  \E c \in DOMAIN cursors :
    /\ ret.op = "fetchone" /\ ret.cur = c /\ cursors[c].dict /\ hist[c].clean
    /\ hist[c].n = MaxRows /\ hist[c].k = MaxRows + 1 /\ ret.kind = "none"

\* C2: on a dict cursor the first fetchone after an execute creates the
\* view; every later fetchone of that execution uses that same view and
\* does not fetch from the engine again; a successful execute clears it;
\* and the first fetchone after a successful execute returns row 0 of the
\* new result.
C2_ViewReusedUntilExecute ==
  [][\A c \in DOMAIN cursors :
       /\ (ret'.op = "fetchone" /\ ret'.cur = c /\ cursors[c].dict /\ ret'.kind # "raise") =>
            /\ cursors'[c].table.st = "table"
            /\ cursors[c].table.st = "table" =>
                 /\ SameRows(cursors'[c].table, cursors[c].table)
                 /\ engine' = engine
       /\ (ret'.op = "execute" /\ ret'.cur = c /\ ret'.kind = "self") =>
            cursors'[c].table = NoneTable
       /\ (ret'.op = "fetchone" /\ ret'.cur = c /\ cursors[c].dict
             /\ hist[c].clean /\ hist[c].k = 0) =>
            IF hist[c].n > 0
            THEN ret'.kind = "dictlist" /\ ret'.val = <<hist[c].q, 0>>
            ELSE ret'.kind = "none"
    ]_vars

\* C3: execute turns the engine's CatalogException into a ProgrammingError
\* with the same message, lets every other failure out as it is, and
\* swallows none.
C3_ErrorTranslation ==
  \A c \in DOMAIN cursors, e \in EngineErrors \cup ParseErrors :
    \A failEng \in AfterFailedExecute(engine[cursors[c].conn], e) :
      LET out == execute(engine[cursors[c].conn], cursors[c], FailCommand(e), failEng) IN
      /\ out.kind = "raise"
      /\ IF e.type = "CatalogException"
         THEN out.val.type = "ProgrammingError" /\ out.val.msg = e.msg
         ELSE out.val = e

\* an execute has raised the ProgrammingError translated from a CatalogException
C3_Witness ==
  /\ ret.op = "execute" /\ ret.kind = "raise"
  /\ ret.val = [type |-> "ProgrammingError", msg |-> "m1"]

\* the closed table of C4, by type name: <<type_code, internal_size,
\* precision, scale>>, or None for a name outside it
C4_Table(type) ==
  CASE type = INTEGER -> Some(<<0, None, Some(38), Some(0)>>)
    [] type = DECIMAL \o <<"(","1","0",",","2",")">> -> Some(<<0, None, Some(10), Some(2)>>)
    [] type = DECIMAL \o <<"(","1","8",",","3",")">> -> Some(<<0, None, Some(18), Some(3)>>)
    [] type = DECIMAL -> Some(<<0, None, None, None>>)
    [] type = DECIMAL \o <<"(",",","2",")">> -> Some(<<0, None, None, None>>)
    [] type = DECIMAL \o <<"(","5",")">> -> Some(<<0, None, None, None>>)
    [] type = VARCHAR -> Some(<<2, Some(16777216), None, None>>)
    [] type = FLOAT -> Some(<<1, None, None, None>>)
    [] type = TIMESTAMP -> Some(<<8, None, Some(0), Some(9)>>)
    [] OTHER -> None

\* C4: describe gives one record per column, in column order, by the
\* closed table, each nullable; if any column's type is outside the table
\* it raises NotImplementedError and gives no list.
C4_DescribeClosedTable ==
  (ret.op = "describe" /\ ret.kind # "pending" /\ ret.arg.exc = NoExc) =>
    LET types == ret.arg.types IN
    IF \A i \in DOMAIN types : C4_Table(types[i]) # None
    THEN /\ ret.kind = "meta"
         /\ Len(ret.val) = Len(types)
         /\ \A i \in DOMAIN types :
              LET t == C4_Table(types[i])[1] IN
              ret.val[i] = [name |-> ColumnNames[i], type_code |-> t[1],
                            display_size |-> None, internal_size |-> t[2],
                            precision |-> t[3], scale |-> t[4], is_nullable |-> TRUE]
    ELSE ret.kind = "raise" /\ ret.val = NotImplementedError

\* describe has mapped a DECIMAL(10,2) column followed by a TIMESTAMP one
C4_Witness ==
  /\ ret.op = "describe" /\ ret.kind = "meta" /\ Len(ret.val) = 2
  /\ ret.val[1].precision = Some(10) /\ ret.val[1].scale = Some(2)
  /\ ret.val[2].type_code = 8

C5_NotEmpty(e) == e # EmptyStatement
C5_IsPrefix(a, b) == Len(a) <= Len(b) /\ a = SubSeq(b, 1, Len(a))

\* C5: execute_string sends the non-empty statements to the engine in text
\* order; when none raises, all of them were sent, each on a new cursor,
\* and the cursors come back in statement order, or none if the caller
\* opted out.
C5_ExecuteStringOrder ==
  (ret.op = "execute_string" /\ ret.kind # "pending") =>
    LET a == ret.arg
        text == SelectSeq(a.stmts, C5_NotEmpty)
        n == Len(text)
    IN /\ C5_IsPrefix(a.log, text)
       /\ ret.kind = "raise" <=> \E i \in 1 .. n : text[i].out = "raise"
       /\ ret.kind = "cursors" =>
            /\ a.log = text
            /\ n > 0 => engine[1] = DuckOpen(text[n].q, text[n].n)
            /\ ret.val = IF a.return_cursors THEN [i \in 1 .. n |-> a.base + i] ELSE <<>>
            /\ Len(cursors) = a.base + Len(ret.val)
            /\ \A i \in DOMAIN ret.val :
                 /\ ret.val[i] > a.base
                 /\ \A j \in DOMAIN ret.val : i # j => ret.val[i] # ret.val[j]
                 /\ cursors[ret.val[i]] = ViewAfterExecute(NewCursor(1, a.useDict), TRUE)

\* execute_string has returned two cursors for two different statements,
\* on a connection that already had a cursor
C5_Witness ==
  /\ ret.op = "execute_string" /\ ret.kind = "cursors"
  /\ Len(ret.val) = 2 /\ ret.arg.base = 1
  /\ ret.arg.log[1] # ret.arg.log[2]

RECURSIVE C6_SumRowcounts(_)
C6_SumRowcounts(bs) == IF bs = <<>> THEN 0 ELSE rowcount(Head(bs)) + C6_SumRowcounts(Tail(bs))

\* C6: get_result_batches called right after a successful execute of an
\* R-row result returns batches, in reader order, that hold rows 0 .. R-1
\* once each: their row counts sum to R.
C6_BatchesCoverResult ==
  /\ \A c \in DOMAIN cursors :
       (hist[c].clean /\ hist[c].k = 0) =>
         LET out == get_result_batches(engine[cursors[c].conn], cursors[c])
             bs == out.val
         IN /\ out.kind = "batches"
            /\ C6_SumRowcounts(bs) = hist[c].n
            /\ \A i \in DOMAIN bs :
                 /\ bs[i].batch.q = hist[c].q
                 /\ bs[i].batch.lo = C6_SumRowcounts(SubSeq(bs, 1, i - 1))
                 /\ bs[i].dict = cursors[c].dict
  /\ (ret.op = "get_result_batches" /\ ret.kind = "batches") =>
       \A i \in DOMAIN ret.val :
         /\ rowcount(ret.val[i]) > 0
         /\ i > 1 => ret.val[i].batch.lo = ret.val[i - 1].batch.hi
         /\ i = Len(ret.val) => ret.val[i].batch.hi = engine[cursors[ret.cur].conn].n

\* get_result_batches has returned a result of two chunks and one row
C6_Witness ==
  /\ ret.op = "get_result_batches" /\ ret.kind = "batches"
  /\ Len(ret.val) = 3 /\ ret.val[1].batch.lo = 0
  /\ rowcount(ret.val[1]) = ChunkSize /\ rowcount(ret.val[3]) = 1

\* C7: for a dataframe of N rows insert_df returns N, and write_pandas
\* returns (True, 1, N, [one 10-field record: the file name, "LOADED", N,
\* N, 1, 0 and four nulls]).
C7_InsertCountReport ==
  /\ (ret.op = "insert_df" /\ ret.kind # "pending" /\ ret.arg.exc = NoExc) =>
       ret.kind = "count" /\ ret.val = ret.arg.nrows
  /\ (ret.op = "write_pandas" /\ ret.kind # "pending" /\ ret.arg.exc = NoExc) =>
       /\ ret.kind = "report"
       /\ Len(ret.val[4]) = 1 /\ Len(ret.val[4][1]) = 10
       /\ ret.val = <<TRUE, 1, ret.arg.nrows,
                      << <<"fakesnow/file0.txt", "LOADED", ret.arg.nrows, ret.arg.nrows,
                           1, 0, None, None, None, None>> >> >>

\* write_pandas has reported a dataframe of MaxRows rows
C7_Witness ==
  /\ ret.op = "write_pandas" /\ ret.kind = "report" /\ ret.val[3] = MaxRows

\* C8: given the same calls after one successful execute, a dict cursor
\* and a tuple cursor return the same rows and run out at the same calls.
C8_ModesAgree ==
  (ret.kind = "pair" /\ ret.op \in {"fetchone", "fetchall"}) =>
    LET d == ret.val[1]
        t == ret.val[2]
    IN IF ret.op = "fetchone"
       THEN \/ d.kind = "none" /\ t.kind = "none"
            \/ d.kind = "dictlist" /\ t.kind = "tuple" /\ d.val = t.val
       ELSE d.kind = "dicts" /\ t.kind = "tuples" /\ SameRows(d.val, t.val)

\* C9: an execute that raises leaves every cursor's view and fetch
\* position as they were; a successful one clears its cursor's view and
\* nothing else; and a view is cleared by nothing but a successful execute
\* (describe runs one).
C9_FailedExecuteKeepsView ==
  [][/\ (ret'.op = "execute" /\ ret'.kind = "raise") => cursors' = cursors
     /\ (ret'.op = "execute" /\ ret'.kind = "self") =>
          cursors' = [cursors EXCEPT ![ret'.cur].table = NoneTable]
     /\ \A c \in DOMAIN cursors :
          (cursors'[c].table = NoneTable /\ cursors[c].table # NoneTable) =>
            /\ ret'.cur = c
            /\ ret'.op \in {"execute", "describe"}
            /\ ret'.op = "execute" => ret'.kind = "self"
    ]_vars

\* an execute has raised on a dict cursor that was two rows into its view
C9_Witness ==
  /\ ret.op = "execute" /\ ret.kind = "raise"
  /\ cursors[ret.cur].table.st = "table" /\ cursors[ret.cur].idx = 1

\* C10: a call on one cursor changes no other cursor's view or position,
\* and a dict cursor that has a view keeps returning that view's next rows
\* and then None, whatever the connection's open result has become.
C10_CursorsIsolated ==
  [][\A a \in DOMAIN cursors :
       /\ ret'.cur # a => cursors'[a] = cursors[a]
       /\ (ret'.op = "fetchone" /\ ret'.cur = a /\ cursors[a].dict
             /\ cursors[a].table.st = "table" /\ engine[cursors[a].conn].open) =>
            IF cursors[a].idx + 1 < RunLen(cursors[a].table)
            THEN /\ ret'.kind = "dictlist"
                 /\ ret'.val = RowAt(cursors[a].table, cursors[a].idx + 1)
            ELSE ret'.kind = "none"
    ]_vars

====
